---- MODULE Spec2Model ----
(***************************************************************************)
(* Template preparation (internal/platform/cli/request.go) and the query   *)
(* extractor (internal/match/extractor_req_query.go) of gbounty.           *)
(*                                                                         *)
(* Text that the code inspects character by character (header overrides,   *)
(* parameter-file lines, query strings) is a sequence of one-character     *)
(* strings; text that is only compared or passed on (paths, URLs, HTTP     *)
(* methods of the inline configuration) is a TLA+ string.                  *)
(***************************************************************************)
EXTENDS Integers, Sequences, FiniteSets, TLC

\* ------------------------------------------------------------------ bounds
MaxRaw == 2
MaxURLs == 2
MaxHeaders == 2
MaxUrlLines == 2
MaxEntries == 2
MaxSplit == 2
MaxParamLines == 3
MaxQueryLen == 3

\* ------------------------------------------------------------ generic helpers
Min(a, b) == IF a < b THEN a ELSE b

SeqsUpTo(S, n) == UNION {[1..k -> S] : k \in 0..n}

RECURSIVE Flatten(_)
Flatten(ss) == IF ss = <<>> THEN <<>> ELSE Head(ss) \o Flatten(Tail(ss))

\* ------------------------------------------------------------ package strings
IsSpace(c) == c \in {" ", "\t"}

RECURSIVE TrimLeft(_)
TrimLeft(s) == IF s # <<>> /\ IsSpace(Head(s)) THEN TrimLeft(Tail(s)) ELSE s

RECURSIVE TrimRight(_)
TrimRight(s) ==
    IF s # <<>> /\ IsSpace(s[Len(s)]) THEN TrimRight(SubSeq(s, 1, Len(s) - 1)) ELSE s

TrimSpace(s) == TrimRight(TrimLeft(s))

\* Position of the first occurrence of c in s, 0 when there is none.
RECURSIVE IndexFrom(_, _, _)
IndexFrom(s, c, i) ==
    IF i > Len(s) THEN 0 ELSE IF s[i] = c THEN i ELSE IndexFrom(s, c, i + 1)

\* strings.SplitN(s, sep, 2) for a one-character separator.
SplitN2(s, sep) ==
    LET i == IndexFrom(s, sep, 1)
    IN  IF i = 0 THEN <<s>> ELSE <<SubSeq(s, 1, i - 1), SubSeq(s, i + 1, Len(s))>>

\* strings.Join(parts, sep) for a one-character separator.
RECURSIVE Join(_, _)
Join(parts, sep) ==
    IF parts = <<>> THEN <<>>
    ELSE IF Len(parts) = 1 THEN parts[1]
    ELSE parts[1] \o <<sep>> \o Join(Tail(parts), sep)

UpperOf(c) ==
    CASE c = "g" -> "G" [] c = "e" -> "E" [] c = "t" -> "T"
      [] c = "u" -> "U" [] c = "r" -> "R" [] c = "l" -> "L"
      [] OTHER -> c

LowerOf(c) ==
    CASE c = "G" -> "g" [] c = "E" -> "e" [] c = "T" -> "t"
      [] c = "U" -> "u" [] c = "R" -> "r" [] c = "L" -> "l"
      [] OTHER -> c

ToUpper(s) == [i \in 1..Len(s) |-> UpperOf(s[i])]

ToLower(s) == [i \in 1..Len(s) |-> LowerOf(s[i])]

\* ------------------------------------------------------------------ errors
NoErr == [marker |-> "nil", path |-> "", header |-> <<>>]

WrapErr(marker, path) == [marker |-> marker, path |-> path, header |-> <<>>]

InvalidHeaderErr(h) == [marker |-> "ErrInvalidHeader", path |-> "", header |-> h]

\* An error handed back as it came from a collaborator, with no marker of this package.
BareErr(origin) == [marker |-> origin, path |-> "", header |-> <<>>]

\* ------------------------------------------------------------ collaborators
\* kit/url.Validate, as the predicate "the text is an acceptable URL".
ValidURLs == {"http://a", "http://b", "http://f1", "http://f2"}

Validate(u) == u \in ValidURLs

EmptyParamsCfg == [Params |-> <<>>, Size |-> 0, Method |-> <<>>, Encoding |-> <<>>]

\* request.WithOptions(url, options...): the collaborator's defaults, then the options in order.
DefaultRequest(u) == [URL |-> u, Method |-> "GET", Data |-> <<>>, Headers |-> <<>>]

RECURSIVE ApplyOptions(_, _)
ApplyOptions(r, opts) ==
    IF opts = <<>> THEN r
    ELSE LET o == Head(opts)
             r2 == CASE o.opt = "method" -> [r EXCEPT !.Method = o.method]
                     [] o.opt = "data" -> [r EXCEPT !.Data = o.data]
                     [] OTHER -> [r EXCEPT !.Headers = Append(@, <<o.key, o.value>>)]
         IN  ApplyOptions(r2, Tail(opts))

WithOptions(u, opts) == ApplyOptions(DefaultRequest(u), opts)

\* scan.NewTemplate(ctx, idx, req, nil); origin is the position of the archive entry,
\* file or URL the request came from.
NewTemplate(idx, source, origin, r) ==
    [Idx |-> idx, Source |-> source, Origin |-> origin, Req |-> r,
     Params |-> <<>>, PMethod |-> <<>>, PEncoding |-> <<>>]

\* Number of batches and the i-th batch of a parameter list; size 0 means no splitting.
BatchSize(p) == IF p.Size = 0 THEN Len(p.Params) ELSE p.Size

NumBatches(p) == (Len(p.Params) + BatchSize(p) - 1) \div BatchSize(p)

Batch(p, i) ==
    SubSeq(p.Params, (i - 1) * BatchSize(p) + 1, Min(i * BatchSize(p), Len(p.Params)))

\* scan.ParamsCfg.Alter: the template itself without parameter names, else one
\* template per batch, indexed from the template's own index.
Alter(p, tpl) ==
    IF p.Params = <<>> THEN <<tpl>>
    ELSE [i \in 1..NumBatches(p) |->
            [tpl EXCEPT !.Idx = tpl.Idx + i - 1,
                        !.Params = Batch(p, i),
                        !.PMethod = p.Method,
                        !.PEncoding = p.Encoding]]

\* scan.TemplateFromRawBytes(ctx, idx, pCfg, bytes) for bytes holding one request.
TemplateFromRawBytes(idx, p, origin, path) ==
    Alter(p, NewTemplate(idx, "raw", origin, DefaultRequest(path)))

\* scan.TemplatesFromZipBytes(ctx, pCfg, bytes) for an archive of n requests: entry k
\* is altered from the next free index, after the templates of entries 1..k-1.
RECURSIVE ZipTemplates(_, _, _, _, _)
ZipTemplates(p, path, k, n, idx) ==
    IF k > n THEN <<>>
    ELSE LET mine == Alter(p, NewTemplate(idx, "bundle", k, DefaultRequest(path)))
         IN  mine \o ZipTemplates(p, path, k + 1, n, idx + Len(mine))

TemplatesFromZipBytes(p, path, n) == ZipTemplates(p, path, 1, n, 0)

\* ------------------------------------------------------------------- state
VARIABLES
    cfg,        \* the Config handed to PrepareTemplates
    urls,       \* URLS of createTemplates' copy of the Config; grows in updateConfigWithURLS
    paramFile,  \* the lines of the file cfg.ParamsFile names
    pc,         \* position of the run inside PrepareTemplates
    source,     \* the branch createTemplates took
    pCfg,       \* scan.ParamsCfg built by PrepareTemplates
    options,    \* request options built by createFromConfig
    pos,        \* 1-based position of the range loop over paths / URLs
    tplIdx,     \* tplIdx of createFromRawRequestFiles / createFromConfig
    pending,    \* templates of the current file / URL not yet handed to the store
    stored,     \* templates the store holds
    log,        \* every call on a collaborator (file system, validation, store), in order
    err,        \* the error PrepareTemplates returns
    req,        \* the query string of the request handed to the extractor
    out         \* the extractor's last call: insertion point type and bytes returned

vars == <<cfg, urls, paramFile, pc, source, pCfg, options, pos, tplIdx, pending, stored,
          log, err, req, out>>

pipeVars == <<cfg, urls, paramFile, pc, source, pCfg, options, pos, tplIdx, pending, stored,
              log, err>>

Event(op, path, idx, ok) == [op |-> op, path |-> path, idx |-> idx, ok |-> ok]

\* ------------------------------------------------------------------ inputs
ParamsPath == "params.txt"
RequestsPath == "requests.zip"
UrlsPath == "urls.txt"
RawPath(i) == "raw" \o ToString(i)

HeaderGood == <<"X", ":", " ", "v", " ">>
HeaderTwoColons == <<"A", ":", "b", ":", "c">>
HeaderBad == <<"X", "-", "T">>

InlineURLs == {"http://a", "not a url"}
FileLines == {"http://f1", "http://f2", "no url"}
HeaderStrings == {HeaderGood, HeaderTwoColons, HeaderBad}

Overrides ==
    {[Method |-> "", Data |-> <<>>],
     [Method |-> "POST", Data |-> << <<"x", "=", "1">>, <<"y">> >>]}

ParamSettings ==
    {[Method |-> <<>>, Encoding |-> <<>>],
     [Method |-> <<"g", "E", "t">>, Encoding |-> <<"U", "r", "l">>]}

MkConfig(reqFile, nRaw, urlsFile, urlList, headers, ov, paramsFile, split, ps) ==
    [RequestsFile |-> reqFile,
     RawRequests |-> [i \in 1..nRaw |-> RawPath(i)],
     UrlsFile |-> urlsFile,
     URLS |-> urlList,
     Headers |-> headers,
     Method |-> ov.Method,
     Data |-> ov.Data,
     ParamsFile |-> paramsFile,
     ParamsSplit |-> split,
     ParamsMethod |-> ps.Method,
     ParamsEncoding |-> ps.Encoding]

\* Parameter settings of a run and the parameter file's lines.
NoParamsFile ==
    {[File |-> "", Split |-> sp, Lines |-> <<>>,
      Set |-> [Method |-> <<"g", "E", "t">>, Encoding |-> <<"U", "r", "l">>]] :
        sp \in {0, MaxSplit}}

FewParamFiles ==
    {[File |-> ParamsPath, Split |-> 1, Lines |-> << <<"a">>, <<" ", "b", " ">> >>,
      Set |-> [Method |-> <<"g", "E", "t">>, Encoding |-> <<"U", "r", "l">>]],
     [File |-> ParamsPath, Split |-> 2, Lines |-> << <<"a">>, <<>>, <<"a", " ">> >>,
      Set |-> [Method |-> <<>>, Encoding |-> <<>>]]}

\* What a configuration of one source carries for the sources it does not use.
Unused ==
    {[nRaw |-> 0, urlsFile |-> "", urls |-> <<>>, headers |-> <<>>],
     [nRaw |-> MaxRaw, urlsFile |-> UrlsPath, urls |-> <<"http://a">>,
      headers |-> <<HeaderBad>>]}

BundleConfigs(params) ==
    {MkConfig(RequestsPath, u.nRaw, u.urlsFile, u.urls, u.headers, ov,
              pf.File, pf.Split, pf.Set) :
        u \in Unused, ov \in Overrides, pf \in params}

RawConfigs(params) ==
    {MkConfig("", n, u.urlsFile, u.urls, u.headers, ov, pf.File, pf.Split, pf.Set) :
        n \in 1..MaxRaw, u \in Unused, ov \in Overrides, pf \in params}

InlineConfigs(params) ==
    {MkConfig("", 0, uf, us, hs, ov, pf.File, pf.Split, pf.Set) :
        uf \in {"", UrlsPath}, us \in SeqsUpTo(InlineURLs, MaxURLs),
        hs \in SeqsUpTo(HeaderStrings, MaxHeaders), ov \in Overrides, pf \in params}

InitPipe(c, lines) ==
    /\ cfg = c
    /\ urls = c.URLS
    /\ paramFile = lines
    /\ pc = "PrepareTemplates"
    /\ source = "none"
    /\ pCfg = EmptyParamsCfg
    /\ options = <<>>
    /\ pos = 0
    /\ tplIdx = 0
    /\ pending = <<>>
    /\ stored = <<>>
    /\ log = <<>>
    /\ err = NoErr

IdleExtractor ==
    /\ req = <<>>
    /\ out = [ipt |-> "none", bytes |-> <<>>]

Init ==
    /\ \E pf \in NoParamsFile \cup FewParamFiles :
         \E c \in BundleConfigs({pf}) \cup RawConfigs({pf}) \cup InlineConfigs({pf}) :
            InitPipe(c, pf.Lines)
    /\ IdleExtractor

\* --------------------------------------------------------- PrepareTemplates
\* The lines as they stand in the file, untrimmed.
readParamsFileUntrimmed(lines) == lines

\* readParamsFile: one name per line, each trimmed.
readParamsFile(lines) == [i \in 1..Len(lines) |-> TrimSpace(lines[i])]

\* Size, method and encoding taken from the Config although the read failed.
BuildParamsCfgOnFailure(c, lines, readOk) ==
    IF c.ParamsFile # ""
    THEN [Params |-> IF readOk THEN readParamsFile(lines) ELSE <<>>,
          Size |-> c.ParamsSplit,
          Method |-> ToUpper(c.ParamsMethod),
          Encoding |-> ToLower(c.ParamsEncoding)]
    ELSE EmptyParamsCfg

\* The ParamsCfg PrepareTemplates hands to createTemplates; readOk is os.ReadFile's outcome.
BuildParamsCfg(c, lines, readOk) ==
    IF c.ParamsFile # "" /\ readOk
    THEN [Params |-> readParamsFile(lines),
          Size |-> c.ParamsSplit,
          Method |-> ToUpper(c.ParamsMethod),
          Encoding |-> ToLower(c.ParamsEncoding)]
    ELSE EmptyParamsCfg

PrepareTemplates ==
    /\ pc = "PrepareTemplates"
    /\ \E readOk \in BOOLEAN :
         /\ pCfg' = BuildParamsCfg(cfg, paramFile, readOk)
         /\ IF cfg.ParamsFile # ""
            THEN log' = Append(log, Event("ReadFile", cfg.ParamsFile, 0, readOk))
            ELSE readOk /\ log' = log
    /\ pc' = "createTemplates"
    /\ UNCHANGED <<cfg, urls, paramFile, source, options, pos, tplIdx, pending, stored, err,
                   req, out>>

\* ---------------------------------------------------------- createTemplates
\* Raw-request files looked at before the captured-requests file.
SelectSourceRawFirst(c) ==
    IF Len(c.RawRequests) > 0 THEN "raw"
    ELSE IF c.RequestsFile # "" THEN "bundle"
    ELSE IF c.UrlsFile # "" THEN "urls"
    ELSE "config"

SelectSource(c) ==
    IF c.RequestsFile # "" THEN "bundle"
    ELSE IF Len(c.RawRequests) > 0 THEN "raw"
    ELSE IF c.UrlsFile # "" THEN "urls"
    ELSE "config"

EntryOf(src) ==
    CASE src = "bundle" -> "createFromRequestsFile"
      [] src = "raw" -> "createFromRawRequestFiles"
      [] src = "urls" -> "updateConfigWithURLS"
      [] OTHER -> "createFromConfig"

createTemplates ==
    /\ pc = "createTemplates"
    /\ source' = SelectSource(cfg)
    /\ pc' = EntryOf(SelectSource(cfg))
    /\ pos' = 1
    /\ UNCHANGED <<cfg, urls, paramFile, pCfg, options, tplIdx, pending, stored, log, err,
                   req, out>>

\* fs.StoreTemplate(ctx, tpl) with outcome ok.
StoreTemplate(tpl, ok) ==
    /\ log' = Append(log, Event("StoreTemplate", "", tpl.Idx, ok))
    /\ stored' = IF ok THEN Append(stored, tpl) ELSE stored

Return(e) ==
    /\ err' = e
    /\ pc' = "done"

\* StoreTemplate's error dropped: the loop goes on.
OnStoreResultIgnored(ok, e) == UNCHANGED <<pc, err>>

\* The check of StoreTemplate's error inside the three store loops.
OnStoreResult(ok, e) == IF ok THEN UNCHANGED <<pc, err>> ELSE Return(e)

\* The increment forgotten.
NextTplIdxStuck(i) == i

\* tplIdx++ of the store loops.
NextTplIdx(i) == i + 1

\* ---------------------------------------------------- createFromRequestsFile
createFromRequestsFile ==
    /\ pc = "createFromRequestsFile"
    /\ \/ \E failure \in {"read error", "parse error"} :
            /\ log' = Append(log, Event("ReadFile", cfg.RequestsFile, 0,
                                        failure # "read error"))
            /\ Return(WrapErr("ErrProcessRequestFile", cfg.RequestsFile))
            /\ pending' = pending
       \/ \E n \in 0..MaxEntries :
            /\ log' = Append(log, Event("ReadFile", cfg.RequestsFile, 0, TRUE))
            /\ pending' = TemplatesFromZipBytes(pCfg, cfg.RequestsFile, n)
            /\ pc' = "createFromRequestsFileStore"
            /\ err' = err
    /\ UNCHANGED <<cfg, urls, paramFile, source, pCfg, options, pos, tplIdx, stored, req, out>>

createFromRequestsFileStore ==
    /\ pc = "createFromRequestsFileStore"
    /\ IF pending = <<>>
       THEN /\ Return(NoErr)
            /\ UNCHANGED <<pending, stored, log>>
       ELSE \E ok \in BOOLEAN :
              /\ StoreTemplate(Head(pending), ok)
              /\ pending' = Tail(pending)
              /\ OnStoreResult(ok, WrapErr("ErrProcessRequestFile", cfg.RequestsFile))
    /\ UNCHANGED <<cfg, urls, paramFile, source, pCfg, options, pos, tplIdx, req, out>>

\* ------------------------------------------------- createFromRawRequestFiles
createFromRawRequestFiles ==
    /\ pc = "createFromRawRequestFiles"
    /\ IF pos > Len(cfg.RawRequests)
       THEN /\ Return(NoErr)
            /\ UNCHANGED <<pending, log>>
       ELSE \E outcome \in {"read error", "parse error", "ok"} :
              /\ log' = Append(log, Event("ReadFile", cfg.RawRequests[pos], 0,
                                          outcome # "read error"))
              /\ IF outcome = "ok"
                 THEN /\ pending' = TemplateFromRawBytes(tplIdx, pCfg, pos,
                                                         cfg.RawRequests[pos])
                      /\ pc' = "createFromRawRequestFilesStore"
                      /\ err' = err
                 ELSE /\ Return(WrapErr("ErrProcessRequestFile", cfg.RawRequests[pos]))
                      /\ pending' = pending
    /\ UNCHANGED <<cfg, urls, paramFile, source, pCfg, options, pos, tplIdx, stored, req, out>>

createFromRawRequestFilesStore ==
    /\ pc = "createFromRawRequestFilesStore"
    /\ IF pending = <<>>
       THEN /\ pos' = pos + 1
            /\ pc' = "createFromRawRequestFiles"
            /\ UNCHANGED <<tplIdx, pending, stored, log, err>>
       ELSE \E ok \in BOOLEAN :
              /\ tplIdx' = NextTplIdx(tplIdx)
              /\ StoreTemplate(Head(pending), ok)
              /\ pending' = Tail(pending)
              /\ pos' = pos
              /\ OnStoreResult(ok, WrapErr("ErrProcessRequestFile", cfg.RawRequests[pos]))
    /\ UNCHANGED <<cfg, urls, paramFile, source, pCfg, options, req, out>>

\* ------------------------------------------------------ updateConfigWithURLS
ScannedLines == SelectSeq(log, LAMBDA e : e.op = "Scan")

\* os.Open always fails with a *PathError, so the error names cfg.UrlsFile.
updateConfigWithURLS ==
    /\ pc = "updateConfigWithURLS"
    /\ \E ok \in BOOLEAN :
         /\ log' = Append(log, Event("Open", cfg.UrlsFile, 0, ok))
         /\ IF ok
            THEN /\ pc' = "updateConfigWithURLSScan"
                 /\ err' = err
            ELSE Return(WrapErr("ErrProcessUrlsFile", cfg.UrlsFile))
    /\ UNCHANGED <<cfg, urls, paramFile, source, pCfg, options, pos, tplIdx, pending, stored,
                   req, out>>

\* The line put in front of the list instead of behind it.
MergeLineInFront(us, line) == IF Validate(line) THEN <<line>> \o us ELSE us

\* The URL list after one scanned line.
MergeLine(us, line) == IF Validate(line) THEN Append(us, line) ELSE us

\* One turn of the scanner loop: the next line, the end of the file, or a read failure.
updateConfigWithURLSScan ==
    /\ pc = "updateConfigWithURLSScan"
    /\ \/ \E line \in FileLines :
            /\ Len(ScannedLines) < MaxUrlLines
            /\ log' = Append(log, Event("Scan", line, 0, Validate(line)))
            /\ urls' = MergeLine(urls, line)
            /\ UNCHANGED <<pc, err>>
       \/ /\ pc' = "createFromConfig"
          /\ UNCHANGED <<urls, log, err>>
       \/ /\ log' = Append(log, Event("ScanError", cfg.UrlsFile, 0, FALSE))
          /\ Return(BareErr("scanner.Err"))
          /\ urls' = urls
    /\ UNCHANGED <<cfg, paramFile, source, pCfg, options, pos, tplIdx, pending, stored,
                   req, out>>

\* ----------------------------------------------------------- createFromConfig
WellFormed(h) == Len(SplitN2(h, ":")) = 2

\* Position of the first header override the loop rejects, 0 when it accepts all.
RECURSIVE FirstRejected(_, _)
FirstRejected(hs, i) ==
    IF i > Len(hs) THEN 0
    ELSE IF ~WellFormed(hs[i]) THEN i
    ELSE FirstRejected(hs, i + 1)

HeaderOption(h) ==
    [opt |-> "header",
     key |-> TrimSpace(SplitN2(h, ":")[1]),
     value |-> TrimSpace(SplitN2(h, ":")[2])]

BuildOptions(c) ==
    (IF c.Method # "" THEN <<[opt |-> "method", method |-> c.Method]>> ELSE <<>>)
    \o (IF Len(c.Data) > 0 THEN <<[opt |-> "data", data |-> Join(c.Data, "&")]>> ELSE <<>>)
    \o [i \in 1..Len(c.Headers) |-> HeaderOption(c.Headers[i])]

\* Malformed header overrides left out instead of rejected.
createFromConfigSkipping ==
    /\ pc = "createFromConfig"
    /\ options' = BuildOptions([cfg EXCEPT !.Headers = SelectSeq(cfg.Headers, WellFormed)])
    /\ pos' = 1
    /\ pc' = "createFromConfigURL"
    /\ err' = err
    /\ UNCHANGED <<cfg, urls, paramFile, source, pCfg, tplIdx, pending, stored, log, req, out>>

createFromConfig ==
    /\ pc = "createFromConfig"
    /\ IF FirstRejected(cfg.Headers, 1) # 0
       THEN /\ Return(InvalidHeaderErr(cfg.Headers[FirstRejected(cfg.Headers, 1)]))
            /\ UNCHANGED <<options, pos>>
       ELSE /\ options' = BuildOptions(cfg)
            /\ pos' = 1
            /\ pc' = "createFromConfigURL"
            /\ err' = err
    /\ UNCHANGED <<cfg, urls, paramFile, source, pCfg, tplIdx, pending, stored, log, req, out>>

\* The invalid URL skipped and the loop continued.
OnInvalidURLSkip == pos' = pos + 1 /\ UNCHANGED <<pc, err>>

\* What the URL loop does with a URL that fails validation.
OnInvalidURL == Return(BareErr("url.Validate")) /\ UNCHANGED pos

createFromConfigURL ==
    /\ pc = "createFromConfigURL"
    /\ IF pos > Len(urls)
       THEN /\ Return(NoErr)
            /\ UNCHANGED <<pos, pending, log>>
       ELSE /\ log' = Append(log, Event("Validate", urls[pos], pos,
                                        Validate(urls[pos])))
            /\ IF Validate(urls[pos])
               THEN /\ pending' = Alter(pCfg, NewTemplate(tplIdx, "config", pos,
                                            WithOptions(urls[pos], options)))
                    /\ pc' = "createFromConfigStore"
                    /\ UNCHANGED <<pos, err>>
               ELSE /\ OnInvalidURL
                    /\ pending' = pending
    /\ UNCHANGED <<cfg, urls, paramFile, source, pCfg, options, tplIdx, stored, req, out>>

createFromConfigStore ==
    /\ pc = "createFromConfigStore"
    /\ IF pending = <<>>
       THEN /\ pos' = pos + 1
            /\ pc' = "createFromConfigURL"
            /\ UNCHANGED <<tplIdx, pending, stored, log, err>>
       ELSE \E ok \in BOOLEAN :
              /\ tplIdx' = NextTplIdx(tplIdx)
              /\ StoreTemplate(Head(pending), ok)
              /\ pending' = Tail(pending)
              /\ pos' = pos
              /\ OnStoreResult(ok, WrapErr("ErrProcessRequestFile", urls[pos]))
    /\ UNCHANGED <<cfg, urls, paramFile, source, pCfg, options, req, out>>

\* ------------------------------------------------------------ query extractor
ParamURLName == "ParamURLName"
ParamURLValue == "ParamURLValue"

\* The segments of s between occurrences of sep.
RECURSIVE Split(_, _)
Split(s, sep) ==
    LET i == IndexFrom(s, sep, 1)
    IN  IF i = 0 THEN <<s>>
        ELSE <<SubSeq(s, 1, i - 1)>> \o Split(SubSeq(s, i + 1, Len(s)), sep)

QueryEntry(ipt, value) == [kind |-> "Query", ipt |-> ipt, value |-> value]

\* entrypoint.NewQueryFinder().Find(req): per parameter of the query string, in order,
\* the insertion point of its name, then the one of its value.
RECURSIVE PairsOf(_)
PairsOf(segments) ==
    IF segments = <<>> THEN <<>>
    ELSE LET seg == Head(segments)
             i == IndexFrom(seg, "=", 1)
             name == IF i = 0 THEN seg ELSE SubSeq(seg, 1, i - 1)
             value == IF i = 0 THEN <<>> ELSE SubSeq(seg, i + 1, Len(seg))
         IN  (IF seg = <<>> THEN <<>>
              ELSE <<QueryEntry(ParamURLName, name), QueryEntry(ParamURLValue, value)>>)
             \o PairsOf(Tail(segments))

Find(r) == PairsOf(Split(r, "&"))

\* The loop of reqQueryBytes over the entry points found, b being the buffer so far.
RECURSIVE AppendMatching(_, _, _)
AppendMatching(es, ipt, b) ==
    IF es = <<>> THEN b
    ELSE AppendMatching(Tail(es), ipt,
                        IF Head(es).kind = "Query" /\ Head(es).ipt = ipt
                        THEN b \o Head(es).value
                        ELSE b)

\* The insertion point type not compared: every query entry point is appended.
reqQueryBytesAll(r, ipt) == Flatten([i \in 1..Len(Find(r)) |-> Find(r)[i].value])

reqQueryBytes(r, ipt) == AppendMatching(Find(r), ipt, <<>>)

reqQueryNameBytes ==
    /\ out' = [ipt |-> ParamURLName, bytes |-> reqQueryBytes(req, ParamURLName)]
    /\ UNCHANGED <<req, pipeVars>>

reqQueryValueBytes ==
    /\ out' = [ipt |-> ParamURLValue, bytes |-> reqQueryBytes(req, ParamURLValue)]
    /\ UNCHANGED <<req, pipeVars>>

QueryChars == {"a", "b", "1", "=", "&"}

ExampleQuery == <<"a", "=", "1", "&", "b", "=", "2", "&", "a", "=", "3">>

IdlePipe ==
    \E c \in BundleConfigs({CHOOSE pf \in NoParamsFile : pf.Split = 0}) :
        /\ c.URLS = <<>>
        /\ c.Method = ""
        /\ InitPipe(c, <<>>)

InitQuery ==
    /\ IdlePipe
    /\ req \in SeqsUpTo(QueryChars, MaxQueryLen) \cup {ExampleQuery}
    /\ out = [ipt |-> "none", bytes |-> <<>>]

NextQuery ==
    \/ reqQueryNameBytes
    \/ reqQueryValueBytes

SpecQuery == InitQuery /\ [][NextQuery]_vars

\* ------------------------------------------------- parameter files in detail
ParamLineSet == {<<"a">>, <<" ", "b", " ">>, <<" ">>}

ManyParamFiles ==
    {[File |-> ParamsPath, Split |-> sp, Lines |-> ls, Set |-> ps] :
        sp \in 0..MaxSplit, ls \in SeqsUpTo(ParamLineSet, MaxParamLines),
        ps \in ParamSettings}

ParamsConfigs(pf) ==
    {MkConfig(RequestsPath, 0, "", <<>>, <<>>, [Method |-> "", Data |-> <<>>],
              pf.File, pf.Split, pf.Set),
     MkConfig("", MaxRaw, "", <<>>, <<>>, [Method |-> "", Data |-> <<>>],
              pf.File, pf.Split, pf.Set),
     MkConfig("", 0, UrlsPath, <<"http://a">>, <<HeaderGood>>,
              [Method |-> "", Data |-> <<>>], pf.File, pf.Split, pf.Set)}

InitParams ==
    /\ \E pf \in ManyParamFiles : \E c \in ParamsConfigs(pf) : InitPipe(c, pf.Lines)
    /\ IdleExtractor

\* -------------------------------------------------------------- specification
Next ==
    \/ PrepareTemplates
    \/ createTemplates
    \/ createFromRequestsFile
    \/ createFromRequestsFileStore
    \/ createFromRawRequestFiles
    \/ createFromRawRequestFilesStore
    \/ updateConfigWithURLS
    \/ updateConfigWithURLSScan
    \/ createFromConfig
    \/ createFromConfigURL
    \/ createFromConfigStore

Spec == Init /\ [][Next]_vars

SpecParams == InitParams /\ [][Next]_vars

\* ================================================================== claims
StoreEvents == SelectSeq(log, LAMBDA e : e.op = "StoreTemplate")

OkStoreEvents == SelectSeq(log, LAMBDA e : e.op = "StoreTemplate" /\ e.ok)

ValidateEvents == SelectSeq(log, LAMBDA e : e.op = "Validate")

FailedStores == {i \in 1..Len(log) : log[i].op = "StoreTemplate" /\ ~log[i].ok}

\* Calls on the file system and on URL validation made for a source (the parameter
\* file is no source).
SourceCalls ==
    {<<log[i].op, log[i].path>> : i \in 1..Len(log)}
        \ {<<"ReadFile", cfg.ParamsFile>>, <<"StoreTemplate", "">>}

StoredSources == {stored[i].Source : i \in 1..Len(stored)}

InlinePath == source \in {"urls", "config"}

HasColon(h) == \E i \in 1..Len(h) : h[i] = ":"


\* C1: the source is chosen first-match-wins in the order captured-requests file,
\* raw-request files, URLs file, inline configuration: with a captured-requests file
\* only that file is read and only bundle templates are stored; else with raw-request
\* files only those are read and only raw templates are stored; else no request file
\* is read, the URLs file (if set) is opened before any URL is validated, and only
\* inline templates are stored. A run never stores templates of two sources.
C1_FirstMatchWins ==
    /\ cfg.RequestsFile # "" =>
         /\ SourceCalls \subseteq {<<"ReadFile", cfg.RequestsFile>>}
         /\ StoredSources \subseteq {"bundle"}
         /\ urls = cfg.URLS
         /\ source \in {"none", "bundle"}
    /\ (cfg.RequestsFile = "" /\ cfg.RawRequests # <<>>) =>
         /\ SourceCalls \subseteq
                {<<"ReadFile", cfg.RawRequests[i]>> : i \in 1..Len(cfg.RawRequests)}
         /\ StoredSources \subseteq {"raw"}
         /\ urls = cfg.URLS
         /\ source \in {"none", "raw"}
    /\ (cfg.RequestsFile = "" /\ cfg.RawRequests = <<>>) =>
         /\ StoredSources \subseteq {"config"}
         /\ \A e \in SourceCalls : e[1] # "ReadFile"
         /\ cfg.UrlsFile = "" =>
              /\ \A e \in SourceCalls : e[1] = "Validate"
              /\ source \in {"none", "config"}
         /\ cfg.UrlsFile # "" =>
              /\ source \in {"none", "urls"}
              /\ \A i \in 1..Len(log) :
                    log[i].op \in {"Validate", "StoreTemplate", "Scan", "ScanError"} =>
                        \E j \in 1..(i - 1) :
                            log[j] = Event("Open", cfg.UrlsFile, 0, TRUE)
    /\ Cardinality(StoredSources) <= 1

C1_Witness ==
    /\ pc = "done"
    /\ cfg.RequestsFile # ""
    /\ cfg.RawRequests # <<>>
    /\ cfg.UrlsFile # ""
    /\ cfg.URLS # <<>>
    /\ Len(stored) >= 2

\* C2: the indices handed to StoreTemplate are 0, 1, 2, ... in store order, whatever
\* the source, and the index the raw and inline loops hand to the factory for the
\* next file or URL is the number of templates stored so far.
C2_DenseIndices ==
    /\ \A i \in 1..Len(StoreEvents) : StoreEvents[i].idx = i - 1
    /\ \A i \in 1..Len(stored) : stored[i].Idx = i - 1
    /\ pc \in {"createFromRawRequestFiles", "createFromConfigURL"} =>
         tplIdx = Len(stored)
    /\ \A i \in 1..Len(pending) : pending[i].Idx = Len(StoreEvents) + i - 1

C2_Witness ==
    /\ pc = "done"
    /\ err = NoErr
    /\ source = "raw"
    /\ Len(stored) = 4
    /\ stored[2].Origin = 1
    /\ stored[3].Origin = 2
    /\ stored[3].Params # <<>>

\* C3: a failing StoreTemplate call is the last call the run makes on any
\* collaborator: the run is over and returns an error, and the store holds exactly the
\* templates of the calls that succeeded before it, in call order.
C3_StoreFailureFatal ==
    /\ \A i \in FailedStores : i = Len(log)
    /\ FailedStores # {} => (pc = "done" /\ err.marker # "nil")
    /\ Len(stored) = Len(OkStoreEvents)
    /\ \A k \in 1..Len(stored) : stored[k].Idx = OkStoreEvents[k].idx
    /\ (pc = "done" /\ err = NoErr) => pending = <<>>

C3_Witness ==
    /\ pc = "done"
    /\ FailedStores # {}
    /\ source = "raw"
    /\ Len(stored) >= 1
    /\ pos < Len(cfg.RawRequests)

\* C4: on the inline-configuration path a header override without a colon means no
\* template is ever handed to the store, and once the path is reached the run ends
\* with ErrInvalidHeader.
C4_InvalidHeaderAborts ==
    (InlinePath /\ \E i \in 1..Len(cfg.Headers) : ~HasColon(cfg.Headers[i])) =>
        /\ StoreEvents = <<>>
        /\ stored = <<>>
        /\ ValidateEvents = <<>>
        /\ pc \notin {"createFromConfigURL", "createFromConfigStore"}
        /\ (pc = "done" /\ err.marker \notin {"ErrProcessUrlsFile", "scanner.Err"}) =>
             err.marker = "ErrInvalidHeader"

C4_Witness ==
    /\ pc = "done"
    /\ source = "urls"
    /\ err.marker = "ErrInvalidHeader"
    /\ Len(urls) >= 2
    /\ Len(cfg.Headers) = 2
    /\ HasColon(cfg.Headers[1])
    /\ ~HasColon(cfg.Headers[2])

\* C5: on the inline-configuration path URLs are validated in list order; the first
\* URL that fails validation ends the run with an error and nothing is stored for it
\* or for a later URL; a run that succeeds without parameter names stores exactly one
\* template per URL, in order, and with no overrides that template's request is the
\* collaborator's default request for the URL.
C5_InvalidURLAborts ==
    InlinePath =>
        /\ \A i \in 1..Len(ValidateEvents) :
              /\ ValidateEvents[i].idx = i
              /\ ValidateEvents[i].path = urls[i]
        /\ \A i \in 1..Len(log) :
              (log[i].op = "Validate" /\ ~log[i].ok) =>
                  (i = Len(log) /\ pc = "done" /\ err.marker # "nil")
        /\ \A k \in 1..Len(urls) :
              urls[k] \notin ValidURLs =>
                  \A j \in 1..Len(stored) : stored[j].Origin < k
        /\ (pc = "done" /\ err = NoErr /\ pCfg.Params = <<>>) =>
              /\ Len(stored) = Len(urls)
              /\ \A i \in 1..Len(stored) :
                    /\ stored[i].Origin = i
                    /\ stored[i].Req.URL = urls[i]
                    /\ (cfg.Method = "" /\ cfg.Data = <<>> /\ cfg.Headers = <<>>) =>
                          stored[i].Req = DefaultRequest(urls[i])

C5_Witness ==
    /\ pc = "done"
    /\ source = "config"
    /\ Len(urls) = 2
    /\ urls[1] \in ValidURLs
    /\ urls[2] \notin ValidURLs
    /\ Len(stored) = 1
    /\ err.marker = "url.Validate"

\* The lines the scanner of updateConfigWithURLS delivered, in file order.
ScannedText == [i \in 1..Len(ScannedLines) |-> ScannedLines[i].path]

ReadableUrlsFile ==
    \A i \in 1..Len(log) : ~(log[i].op \in {"Open", "ScanError"} /\ ~log[i].ok)

\* C6: with a URLs file the URL list of the inline path is the inline URLs followed by
\* the file's valid lines in file order; an invalid line never ends the run, and a
\* run over a readable file ends only with what the inline path returns.
C6_LenientUrlsFile ==
    source = "urls" =>
        /\ urls = cfg.URLS \o SelectSeq(ScannedText, LAMBDA l : l \in ValidURLs)
        /\ (log # <<>> /\ log[Len(log)].op = "Scan") =>
              err.marker \in {"nil", "ErrInvalidHeader"}
        /\ (pc = "done" /\ ReadableUrlsFile) =>
              err.marker \in {"nil", "ErrInvalidHeader", "url.Validate",
                              "ErrProcessRequestFile"}
        /\ (pc = "done" /\ ReadableUrlsFile /\ cfg.Headers = <<>> /\ FailedStores = {}
            /\ \A i \in 1..Len(cfg.URLS) : cfg.URLS[i] \in ValidURLs) =>
              /\ err = NoErr
              /\ Len(ValidateEvents) = Len(urls)

C6_Witness ==
    /\ pc = "done"
    /\ source = "urls"
    /\ cfg.URLS = <<>>
    /\ ScannedText = <<"no url", "http://f1">>
    /\ urls = <<"http://f1">>
    /\ err = NoErr
    /\ Len(stored) = 1

ParamsReadFailed ==
    /\ log # <<>>
    /\ log[1] = Event("ReadFile", cfg.ParamsFile, 0, FALSE)

\* C7: the parameter file is read at most once and before anything else; when the
\* read fails the run goes on to source selection with the empty parameter
\* configuration, the one a run without a parameter file has, so every template is
\* stored as built, without parameter batches.
C7_ParamsFailureNonFatal ==
    /\ \A i \in 1..Len(log) :
          (log[i].op = "ReadFile" /\ log[i].path = ParamsPath) =>
              (i = 1 /\ cfg.ParamsFile = ParamsPath)
    /\ (cfg.ParamsFile # "" /\ pc # "PrepareTemplates") =>
          (log # <<>> /\ log[1].op = "ReadFile" /\ log[1].path = cfg.ParamsFile)
    /\ (cfg.ParamsFile = "" /\ pc # "PrepareTemplates") => pCfg = EmptyParamsCfg
    /\ ParamsReadFailed =>
          /\ pCfg = EmptyParamsCfg
          /\ pc = "done" => source # "none"
          /\ \A i \in 1..Len(stored) :
                /\ stored[i].Params = <<>>
                /\ stored[i].PMethod = <<>>
                /\ stored[i].PEncoding = <<>>
          /\ \A i, j \in 1..Len(stored) : i # j => stored[i].Origin # stored[j].Origin

C7_Witness ==
    /\ pc = "done"
    /\ err = NoErr
    /\ ParamsReadFailed
    /\ cfg.ParamsSplit >= 1
    /\ paramFile # <<>>
    /\ Len(stored) >= 2

\* C8: every failure to read a captured-requests or raw-request file ends the run
\* with ErrProcessRequestFile naming that file, and every failure to open or to scan
\* the URLs file ends it with ErrProcessUrlsFile naming the URLs file.
C8_SourceErrorsWrapped ==
    \A i \in 1..Len(log) :
        /\ (log[i].op = "ReadFile" /\ ~log[i].ok /\ log[i].path # cfg.ParamsFile) =>
              (pc = "done" /\ err = WrapErr("ErrProcessRequestFile", log[i].path))
        /\ (log[i].op \in {"Open", "ScanError"} /\ ~log[i].ok) =>
              (pc = "done" /\ err = WrapErr("ErrProcessUrlsFile", cfg.UrlsFile))

ParamsRead ==
    /\ log # <<>>
    /\ log[1] = Event("ReadFile", cfg.ParamsFile, 0, TRUE)

\* name is line without the blanks at its two ends.
IsTrimOf(name, line) ==
    \E a \in 0..Len(line) : \E b \in a..Len(line) :
        /\ name = SubSeq(line, a + 1, b)
        /\ \A i \in 1..a : line[i] \in {" ", "\t"}
        /\ \A i \in (b + 1)..Len(line) : line[i] \in {" ", "\t"}
        /\ name # <<>> => (name[1] \notin {" ", "\t"} /\ name[Len(name)] \notin {" ", "\t"})

\* Positions of the requests a finished run built templates for.
Origins ==
    IF source = "raw" THEN 1..Len(cfg.RawRequests)
    ELSE IF source = "bundle" THEN {stored[i].Origin : i \in 1..Len(stored)}
    ELSE 1..Len(urls)

TemplatesOf(o) == SelectSeq(stored, LAMBDA t : t.Origin = o)

\* C9: the parameter names handed to Alter are the file's lines, one per line, trimmed,
\* order and duplicates kept, and the batch size is the configured one; with N >= 1
\* names and batch size B >= 1 every request yields ceil(N/B) templates whose batches,
\* in order, are full but for the last and concatenate to the N names; with no names
\* every request yields the one template built for it.
C9_ParamsBatched ==
    (ParamsRead /\ pc # "PrepareTemplates") =>
        /\ Len(pCfg.Params) = Len(paramFile)
        /\ \A i \in 1..Len(paramFile) : IsTrimOf(pCfg.Params[i], paramFile[i])
        /\ pCfg.Size = cfg.ParamsSplit
        /\ (pc = "done" /\ err = NoErr) =>
              \A o \in Origins :
                  LET ts == TemplatesOf(o)
                      N == Len(paramFile)
                      B == cfg.ParamsSplit
                  IN  /\ N = 0 => (Len(ts) = 1 /\ ts[1].Params = <<>>)
                      /\ (N >= 1 /\ B >= 1) =>
                            /\ (Len(ts) - 1) * B < N
                            /\ N <= Len(ts) * B
                            /\ \A j \in 1..(Len(ts) - 1) : Len(ts[j].Params) = B
                            /\ Flatten([j \in 1..Len(ts) |-> ts[j].Params])
                                  = pCfg.Params

C9_Witness ==
    /\ pc = "done"
    /\ err = NoErr
    /\ ParamsRead
    /\ source = "urls"
    /\ paramFile = << <<"a">>, <<" ", "b", " ">>, <<"a">> >>
    /\ cfg.ParamsSplit = 2
    /\ Len(urls) = 2
    /\ Len(stored) = 4
    /\ stored[3].Params = << <<"a">>, <<"b">> >>
    /\ stored[4].Params = << <<"a">> >>

Matching(ipt) == SelectSeq(Find(req), LAMBDA e : e.ipt = ipt)

\* C10: the extractor returns the payloads of the query insertion points of the asked
\* type, concatenated in finder order, nothing when there is none, and leaves the
\* request as it was; on a=1&b=2&a=3 that is "aba" for names and "123" for values.
C10_QueryExtractor ==
    /\ [](out.ipt # "none" =>
            LET m == Matching(out.ipt)
            IN  /\ out.bytes = Flatten([i \in 1..Len(m) |-> m[i].value])
                /\ m = <<>> => out.bytes = <<>>
                /\ \A i \in 1..Len(out.bytes) : out.bytes[i] # "&"
                /\ req = ExampleQuery =>
                      out.bytes = IF out.ipt = ParamURLName
                                  THEN <<"a", "b", "a">>
                                  ELSE <<"1", "2", "3">>)
    /\ [][req' = req]_vars

C10_Witness ==
    /\ req = ExampleQuery
    /\ out = [ipt |-> ParamURLName, bytes |-> <<"a", "b", "a">>]
====
